---- MODULE Spec2Model ----
(***************************************************************************)
(* A model of the actor VM of src/src/main.rs: the tagged Value, the       *)
(* Register file, the Mailbox and ActorVm::tick, the fetch-execute step.   *)
(*                                                                         *)
(* A Rust panic (an index out of range, unwrap on None, an integer         *)
(* division by zero, panic!, todo!) unwinds the thread that called tick:   *)
(* the model records it in failed[a], after which that actor is neither    *)
(* ticked nor posted to.  Each actor is driven by a caller of its own.     *)
(***************************************************************************)
EXTENDS Integers, Sequences, FiniteSets, TLC

VARIABLES
    program,    \* ActorVm.program, per actor: a sequence of instructions
    register,   \* ActorVm.register.registers, per actor: Reg -> Value
    stack,      \* ActorVm.stack, per actor
    heap,       \* ActorVm.heap, per actor
    mailbox,    \* ActorVm.mailbox.messages, per actor
    running,    \* ActorVm.running, per actor
    failed,     \* per actor: a tick of the actor has panicked
    hist,       \* history, per actor: the records of its last HistLen ticks
    posted,     \* history of a Mailbox: the <<poster, value>> committed by post
    taken,      \* history of a Mailbox: the values returned by take
    lastTake,   \* history of a Mailbox: the last call of take
    probe,      \* the last call of Value::clone or Register::set/get, and its result
    lock,       \* ActorVm.lock, per actor: the Mutex is held
    calls       \* history, per actor: its calls of get_tick and release

vars == <<program, register, stack, heap, mailbox, running, failed, hist,
          posted, taken, lastTake, probe, lock, calls>>

lockVars == <<lock, calls>>

(***************************************************************************)
(* Bounds of the model.                                                    *)
(***************************************************************************)
\* Int(i64) is modelled by two's complement integers of IntBits bits (TLC's
\* own integers have 32): overflow, i64::MIN and i64::MAX keep their roles.
IntBits == 12
\* A mailbox of an actor holds at most MaxMailbox posted values.
MaxMailbox == 1
\* The calls of post on the Mailbox of SpecMailbox.
MaxPosts == 3
\* Ticks are taken while the stack is no deeper than MaxStack.
MaxStack == 3
\* The tick records kept per actor.
HistLen == 2
\* The sizes given to Inst::List and Inst::Tuple range over 0..MaxSize.
MaxSize == 3

(***************************************************************************)
(* Integers of the width of i64.                                           *)
(***************************************************************************)
RECURSIVE Pow2(_)
Pow2(n) == IF n = 0 THEN 1 ELSE 2 * Pow2(n - 1)

IntMin == -Pow2(IntBits - 1)
IntMax == Pow2(IntBits - 1) - 1

\* The two's complement value of x (what a release build's + - * leave).
Wrap(x) == ((x - IntMin) % Pow2(IntBits)) + IntMin

\* `i as usize` of an i64: a negative i becomes a huge index.
AsUsize(i) == IF i < 0 THEN i + Pow2(IntBits) ELSE i

Abs(x) == IF x < 0 THEN -x ELSE x

\* Rust's / and % on integers truncate toward zero (TLA+'s \div floors).
TruncDiv(x, y) ==
    IF (x < 0) = (y < 0) THEN Abs(x) \div Abs(y) ELSE -(Abs(x) \div Abs(y))

TruncRem(x, y) == x - TruncDiv(x, y) * y

(***************************************************************************)
(* f64.  A float is NaN, an infinity (n is its sign) or the rational n/d   *)
(* in lowest terms, d > 0.  The operands of the model are small, so sums,  *)
(* differences and products are exact; a quotient is kept as the exact     *)
(* rational (rounding is not modelled), and -0.0 is not told from 0.0.     *)
(***************************************************************************)
RECURSIVE Gcd(_, _)
Gcd(x, y) == IF y = 0 THEN x ELSE Gcd(y, x % y)

FNaN == [k |-> "nan", n |-> 0, d |-> 1]
FInf(sign) == [k |-> "inf", n |-> sign, d |-> 1]
FFin(n, d) ==
    LET g == Gcd(Abs(n), Abs(d))
        s == IF d < 0 THEN -1 ELSE 1
    IN [k |-> "fin", n |-> (s * n) \div g, d |-> (s * d) \div g]

Sign(x) == IF x < 0 THEN -1 ELSE 1

FAdd(x, y) ==
    IF x.k = "nan" \/ y.k = "nan" THEN FNaN
    ELSE IF x.k = "inf" /\ y.k = "inf" THEN (IF x.n = y.n THEN x ELSE FNaN)
    ELSE IF x.k = "inf" THEN x
    ELSE IF y.k = "inf" THEN y
    ELSE FFin(x.n * y.d + y.n * x.d, x.d * y.d)

FNeg(x) == IF x.k = "nan" THEN FNaN ELSE [x EXCEPT !.n = -x.n]

FSub(x, y) == FAdd(x, FNeg(y))

FMul(x, y) ==
    IF x.k = "nan" \/ y.k = "nan" THEN FNaN
    ELSE IF x.k = "inf" \/ y.k = "inf"
         THEN (IF x.n = 0 \/ y.n = 0 THEN FNaN ELSE FInf(Sign(x.n) * Sign(y.n)))
    ELSE FFin(x.n * y.n, x.d * y.d)

FDiv(x, y) ==
    IF x.k = "nan" \/ y.k = "nan" THEN FNaN
    ELSE IF x.k = "inf" THEN (IF y.k = "inf" THEN FNaN ELSE FInf(x.n * Sign(y.n)))
    ELSE IF y.k = "inf" THEN FFin(0, 1)
    ELSE IF y.n = 0 THEN (IF x.n = 0 THEN FNaN ELSE FInf(Sign(x.n)))
    ELSE FFin(x.n * y.d, x.d * y.n)

\* Rust's % on f64 is fmod: x - trunc(x / y) * y.
FRem(x, y) ==
    IF x.k = "nan" \/ y.k = "nan" \/ x.k = "inf" THEN FNaN
    ELSE IF y.k = "inf" THEN x
    ELSE IF y.n = 0 THEN FNaN
    ELSE LET q == TruncDiv(x.n * y.d, x.d * y.n)
         IN FFin(x.n * y.d - q * y.n * x.d, x.d * y.d)

\* IEEE comparisons: NaN is neither equal to nor ordered with anything.
FEq(x, y) == x.k # "nan" /\ y.k # "nan" /\ x = y

FLt(x, y) ==
    /\ x.k # "nan" /\ y.k # "nan"
    /\ IF x.k = "inf" THEN x.n < 0 /\ x # y
       ELSE IF y.k = "inf" THEN y.n > 0
       ELSE x.n * y.d < y.n * x.d

(***************************************************************************)
(* enum Value.  A List or Tuple holds a sequence of Values, a Map a set of *)
(* <<key, value>> pairs.                                                   *)
(***************************************************************************)
ValueRef(r) == [tag |-> "Ref", v |-> r]
ValueInt(i) == [tag |-> "Int", v |-> i]
ValueFloat(f) == [tag |-> "Float", v |-> f]
ValueBool(b) == [tag |-> "Bool", v |-> b]
ValueString(s) == [tag |-> "String", v |-> s]
ValueAtom(a) == [tag |-> "Atom", v |-> a]
ValueList(l) == [tag |-> "List", v |-> l]
ValueTuple(t) == [tag |-> "Tuple", v |-> t]
ValueMap(m) == [tag |-> "Map", v |-> m]

\* Value::clone: a List or Tuple is copied element by element; the clone of
\* a Map is a new, empty map.
RECURSIVE clone(_)
clone(value) ==
    CASE value.tag = "List" ->
           ValueList([i \in 1..Len(value.v) |-> clone(value.v[i])])
      [] value.tag = "Tuple" ->
           ValueTuple([i \in 1..Len(value.v) |-> clone(value.v[i])])
      [] value.tag = "Map" -> ValueMap({})
      [] OTHER -> value

(***************************************************************************)
(* struct Register: the 11 slots named by enum Reg.                        *)
(***************************************************************************)
Reg == {"R0", "R1", "R2", "R3", "R4", "R5", "R6", "R7", "PC", "ZF", "LR"}

RegisterNew ==
    [r \in Reg |-> IF r = "ZF" THEN ValueBool(FALSE) ELSE ValueRef(0)]

RegisterGet(registers, reg) == clone(registers[reg])

RegisterSet(registers, reg, value) ==
    [registers EXCEPT ![reg] = clone(value)]

(***************************************************************************)
(* struct Mailbox.  post and take hold &mut self and the lock: each is one *)
(* atomic step.                                                            *)
(***************************************************************************)
None == [some |-> FALSE]
Some(value) == [some |-> TRUE, value |-> value]

MailboxNew == <<>>

MailboxPost(messages, value) == Append(messages, value)

\* A take that removes the newest entry (messages.pop()) instead of the oldest.
MailboxTakeNewest(messages) ==
    IF messages = <<>>
    THEN [result |-> None, messages |-> messages]
    ELSE [result |-> Some(messages[Len(messages)]),
          messages |-> SubSeq(messages, 1, Len(messages) - 1)]

\* The value returned and the messages left.
MailboxTake(messages) ==
    IF messages = <<>>
    THEN [result |-> None, messages |-> messages]
    ELSE [result |-> Some(Head(messages)), messages |-> Tail(messages)]

(***************************************************************************)
(* enum Inst.                                                              *)
(***************************************************************************)
InstInt(reg, i) == [op |-> "Int", reg |-> reg, i |-> i]
InstFloat(reg, f) == [op |-> "Float", reg |-> reg, f |-> f]
InstBool(reg, b) == [op |-> "Bool", reg |-> reg, b |-> b]
InstRef(reg, u) == [op |-> "Ref", reg |-> reg, u |-> u]
InstString(reg, s) == [op |-> "String", reg |-> reg, s |-> s]
InstAtom(reg, s) == [op |-> "Atom", reg |-> reg, s |-> s]
InstList(reg, size) == [op |-> "List", reg |-> reg, size |-> size]
InstTuple(reg, size) == [op |-> "Tuple", reg |-> reg, size |-> size]
InstMap(reg) == [op |-> "Map", reg |-> reg]
InstSetC(target, key, value) ==
    [op |-> "SetC", target |-> target, key |-> key, value |-> value]
InstMoveC(from, key, to) ==
    [op |-> "MoveC", from |-> from, key |-> key, to |-> to]
InstMove(r1, r2) == [op |-> "Move", r1 |-> r1, r2 |-> r2]
InstStore(reg, address) == [op |-> "Store", reg |-> reg, address |-> address]
InstLoad(address, reg) == [op |-> "Load", address |-> address, reg |-> reg]
InstSend(reg, reg1) == [op |-> "Send", reg |-> reg, reg1 |-> reg1]
InstRecv(reg) == [op |-> "Recv", reg |-> reg]
InstArith(op, r0, r1, r2) == [op |-> op, r0 |-> r0, r1 |-> r1, r2 |-> r2]
InstJump(address) == [op |-> "Jump", address |-> address]
InstJumpIf(address) == [op |-> "JumpIf", address |-> address]
InstCmp(op, r0, r1) == [op |-> op, r0 |-> r0, r1 |-> r1]
InstPush(reg) == [op |-> "Push", reg |-> reg]
InstPop(reg) == [op |-> "Pop", reg |-> reg]
InstHlt == [op |-> "Hlt"]

ArithOps == {"Add", "Sub", "Mul", "Div", "Mod"}
OrderedOps == {"Gt", "Gte", "Lt", "Lte"}

(***************************************************************************)
(* ActorVm::tick.  The state of one actor during a tick is the record      *)
(* [register, stack, heap, running, panic]; panic says that the tick       *)
(* panicked, the other fields being what the panic left behind.            *)
(***************************************************************************)
Panic(s) == [s EXCEPT !.panic = TRUE]

\* ActorVm::get_reg and ActorVm::set_reg
GetReg(s, reg) == RegisterGet(s.register, reg)

SetReg(s, reg, value) ==
    [s EXCEPT !.register = RegisterSet(@, reg, value)]

\* ActorVm::set_pc
SetPc(s, pc) == SetReg(s, "PC", ValueRef(pc))

\* size - 1 slots holding Ref(0): the loop `for _ in 1..size` of Inst::Tuple
\* and Inst::List (no slot for size = 0).
Fill(size) == [i \in 1..(size - 1) |-> ValueRef(0)]

\* An integer arithmetic whose / and % by zero give 0 instead of a panic.
IntArithZeroQuiet(op, v0, v1, checks) ==
    LET exact == CASE op = "Add" -> v0 + v1
                   [] op = "Sub" -> v0 - v1
                   [] op = "Mul" -> v0 * v1
                   [] op = "Div" -> IF v1 = 0 THEN 0 ELSE TruncDiv(v0, v1)
                   [] op = "Mod" -> IF v1 = 0 THEN 0 ELSE TruncRem(v0, v1)
    IN IF op \in {"Div", "Mod"}
       THEN IF v0 = IntMin /\ v1 = -1
            THEN [panic |-> TRUE, v |-> 0]
            ELSE [panic |-> FALSE, v |-> exact]
       ELSE IF exact < IntMin \/ exact > IntMax
            THEN [panic |-> checks, v |-> Wrap(exact)]
            ELSE [panic |-> FALSE, v |-> exact]

\* v0 op v1 on i64.  checks: the build has overflow checks (a debug build),
\* where + - * panic on overflow; without them they wrap.  / and % panic on
\* a zero divisor and on i64::MIN / -1 in every build.
IntArith(op, v0, v1, checks) ==
    LET exact == CASE op = "Add" -> v0 + v1
                   [] op = "Sub" -> v0 - v1
                   [] op = "Mul" -> v0 * v1
                   [] op = "Div" -> IF v1 = 0 THEN 0 ELSE TruncDiv(v0, v1)
                   [] op = "Mod" -> IF v1 = 0 THEN 0 ELSE TruncRem(v0, v1)
    IN IF op \in {"Div", "Mod"}
       THEN IF v1 = 0 \/ (v0 = IntMin /\ v1 = -1)
            THEN [panic |-> TRUE, v |-> 0]
            ELSE [panic |-> FALSE, v |-> exact]
       ELSE IF exact < IntMin \/ exact > IntMax
            THEN [panic |-> checks, v |-> Wrap(exact)]
            ELSE [panic |-> FALSE, v |-> exact]

FloatArith(op, v0, v1) ==
    CASE op = "Add" -> FAdd(v0, v1)
      [] op = "Sub" -> FSub(v0, v1)
      [] op = "Mul" -> FMul(v0, v1)
      [] op = "Div" -> FDiv(v0, v1)
      [] op = "Mod" -> FRem(v0, v1)

\* An arithmetic instruction that panics on an unsupported pair, as the ordered
\* comparisons do.
ExecArithStrict(s, inst, checks) ==
    LET v0 == GetReg(s, inst.r0)
        v1 == GetReg(s, inst.r1)
    IN IF v0.tag = "Int" /\ v1.tag = "Int"
       THEN LET r == IntArith(inst.op, v0.v, v1.v, checks)
            IN IF r.panic THEN Panic(s) ELSE SetReg(s, inst.r2, ValueInt(r.v))
       ELSE IF v0.tag = "Float" /\ v1.tag = "Float"
       THEN SetReg(s, inst.r2, ValueFloat(FloatArith(inst.op, v0.v, v1.v)))
       ELSE Panic(s)

\* Inst::Add, Sub, Mul, Div, Mod
ExecArith(s, inst, checks) ==
    LET v0 == GetReg(s, inst.r0)
        v1 == GetReg(s, inst.r1)
    IN IF v0.tag = "Int" /\ v1.tag = "Int"
       THEN LET r == IntArith(inst.op, v0.v, v1.v, checks)
            IN IF r.panic THEN Panic(s) ELSE SetReg(s, inst.r2, ValueInt(r.v))
       ELSE IF v0.tag = "Float" /\ v1.tag = "Float"
       THEN SetReg(s, inst.r2, ValueFloat(FloatArith(inst.op, v0.v, v1.v)))
       ELSE s

\* Inst::Eq: an unsupported pair is passed over.
ExecEq(s, inst) ==
    LET v0 == GetReg(s, inst.r0)
        v1 == GetReg(s, inst.r1)
    IN IF v0.tag = "Int" /\ v1.tag = "Int"
       THEN SetReg(s, "ZF", ValueBool(v0.v = v1.v))
       ELSE IF v0.tag = "Float" /\ v1.tag = "Float"
       THEN SetReg(s, "ZF", ValueBool(FEq(v0.v, v1.v)))
       ELSE IF v0.tag = "String" /\ v1.tag = "String"
       THEN SetReg(s, "ZF", ValueBool(v0.v = v1.v))
       ELSE s

\* Inst::Ne: an unsupported pair panics ("Invalid comparison").
ExecNe(s, inst) ==
    LET v0 == GetReg(s, inst.r0)
        v1 == GetReg(s, inst.r1)
    IN IF v0.tag = "Int" /\ v1.tag = "Int"
       THEN SetReg(s, "ZF", ValueBool(v0.v # v1.v))
       ELSE IF v0.tag = "Float" /\ v1.tag = "Float"
       THEN SetReg(s, "ZF", ValueBool(~FEq(v0.v, v1.v)))
       ELSE IF v0.tag = "String" /\ v1.tag = "String"
       THEN SetReg(s, "ZF", ValueBool(v0.v # v1.v))
       ELSE Panic(s)

IntOrdered(op, v0, v1) ==
    CASE op = "Gt" -> v0 > v1
      [] op = "Gte" -> v0 >= v1
      [] op = "Lt" -> v0 < v1
      [] op = "Lte" -> v0 <= v1

FloatOrdered(op, v0, v1) ==
    CASE op = "Gt" -> FLt(v1, v0)
      [] op = "Gte" -> FLt(v1, v0) \/ FEq(v0, v1)
      [] op = "Lt" -> FLt(v0, v1)
      [] op = "Lte" -> FLt(v0, v1) \/ FEq(v0, v1)

\* An ordered comparison that passes over an unsupported pair, as Eq does.
ExecOrderedTolerant(s, inst) ==
    LET v0 == GetReg(s, inst.r0)
        v1 == GetReg(s, inst.r1)
    IN IF v0.tag = "Int" /\ v1.tag = "Int"
       THEN SetReg(s, "ZF", ValueBool(IntOrdered(inst.op, v0.v, v1.v)))
       ELSE IF v0.tag = "Float" /\ v1.tag = "Float"
       THEN SetReg(s, "ZF", ValueBool(FloatOrdered(inst.op, v0.v, v1.v)))
       ELSE s

\* Inst::Gt, Gte, Lt, Lte: an unsupported pair panics.
ExecOrdered(s, inst) ==
    LET v0 == GetReg(s, inst.r0)
        v1 == GetReg(s, inst.r1)
    IN IF v0.tag = "Int" /\ v1.tag = "Int"
       THEN SetReg(s, "ZF", ValueBool(IntOrdered(inst.op, v0.v, v1.v)))
       ELSE IF v0.tag = "Float" /\ v1.tag = "Float"
       THEN SetReg(s, "ZF", ValueBool(FloatOrdered(inst.op, v0.v, v1.v)))
       ELSE Panic(s)

\* A SetC that changes its copy of the list and does not store it back.
ExecSetCNoStore(s, inst) ==
    LET t == GetReg(s, inst.target)
        k == GetReg(s, inst.key)
    IN IF t.tag = "List" /\ k.tag = "Int" /\ AsUsize(k.v) >= Len(t.v)
       THEN Panic(s)
       ELSE s

\* Inst::SetC: list[i as usize] = v, the list stored back; any other tag of
\* the target or of the key is passed over.
ExecSetC(s, inst) ==
    LET t == GetReg(s, inst.target)
        k == GetReg(s, inst.key)
        v == GetReg(s, inst.value)
    IN IF t.tag = "List" /\ k.tag = "Int"
       THEN IF AsUsize(k.v) >= Len(t.v)
            THEN Panic(s)
            ELSE SetReg(s, inst.target,
                        ValueList([t.v EXCEPT ![AsUsize(k.v) + 1] = clone(v)]))
       ELSE s

\* Inst::MoveC
ExecMoveC(s, inst) ==
    LET f == GetReg(s, inst.from)
        k == GetReg(s, inst.key)
    IN IF f.tag = "List" /\ k.tag = "Int"
       THEN IF AsUsize(k.v) >= Len(f.v)
            THEN Panic(s)
            ELSE SetReg(s, inst.to, clone(f.v[AsUsize(k.v) + 1]))
       ELSE s

\* Inst::Load and Inst::Store index the heap Vec (a panic out of its length).
ExecLoad(s, inst) ==
    IF inst.address >= Len(s.heap)
    THEN Panic(s)
    ELSE SetReg(s, inst.reg, clone(s.heap[inst.address + 1]))

ExecStore(s, inst) ==
    IF inst.address >= Len(s.heap)
    THEN Panic(s)
    ELSE [s EXCEPT !.heap[inst.address + 1] = clone(GetReg(s, inst.reg))]

\* A JumpIf that jumps when ZF holds Bool(false).
ExecJumpIfFalse(s, inst) ==
    LET value == GetReg(s, "ZF")
    IN IF value.tag # "Bool" THEN Panic(s)
       ELSE IF ~value.v THEN SetPc(s, inst.address)
       ELSE s

\* Inst::JumpIf
ExecJumpIf(s, inst) ==
    LET value == GetReg(s, "ZF")
    IN IF value.tag # "Bool" THEN Panic(s)
       ELSE IF value.v THEN SetPc(s, inst.address)
       ELSE s

\* Inst::Push and Inst::Pop
ExecPush(s, inst) ==
    SetReg([s EXCEPT !.stack = Append(@, clone(GetReg(s, inst.reg)))],
           inst.reg, ValueRef(0))

\* A Pop that removes the oldest entry of the stack (remove(0)).
ExecPopOldest(s, inst) ==
    IF s.stack = <<>>
    THEN Panic(s)
    ELSE SetReg([s EXCEPT !.stack = Tail(@)], inst.reg, Head(s.stack))

ExecPop(s, inst) ==
    IF s.stack = <<>>
    THEN Panic(s)
    ELSE SetReg([s EXCEPT !.stack = SubSeq(@, 1, Len(@) - 1)],
                inst.reg, s.stack[Len(s.stack)])

\* The match of tick on the fetched instruction, PC already incremented.
Execute(s, inst, checks) ==
    CASE inst.op = "Load" -> ExecLoad(s, inst)
      [] inst.op = "Store" -> ExecStore(s, inst)
      [] inst.op = "Bool" -> SetReg(s, inst.reg, ValueBool(inst.b))
      [] inst.op = "Int" -> SetReg(s, inst.reg, ValueInt(inst.i))
      [] inst.op = "Float" -> SetReg(s, inst.reg, ValueFloat(inst.f))
      [] inst.op = "Ref" -> SetReg(s, inst.reg, ValueRef(inst.u))
      [] inst.op = "String" -> SetReg(s, inst.reg, ValueString(inst.s))
      [] inst.op = "Atom" -> SetReg(s, inst.reg, ValueAtom(inst.s))
      [] inst.op = "Tuple" -> SetReg(s, inst.reg, ValueTuple(Fill(inst.size)))
      [] inst.op = "List" -> SetReg(s, inst.reg, ValueList(Fill(inst.size)))
      [] inst.op = "Map" -> SetReg(s, inst.reg, ValueMap({}))
      [] inst.op = "SetC" -> ExecSetC(s, inst)
      [] inst.op = "MoveC" -> ExecMoveC(s, inst)
      [] inst.op = "Move" -> SetReg(s, inst.r2, clone(GetReg(s, inst.r1)))
      [] inst.op \in ArithOps -> ExecArith(s, inst, checks)
      [] inst.op = "Eq" -> ExecEq(s, inst)
      [] inst.op = "Ne" -> ExecNe(s, inst)
      [] inst.op \in OrderedOps -> ExecOrdered(s, inst)
      [] inst.op = "Jump" -> SetPc(s, inst.address)
      [] inst.op = "JumpIf" -> ExecJumpIf(s, inst)
      [] inst.op = "Hlt" -> [s EXCEPT !.running = FALSE]
      [] inst.op = "Send" -> Panic(s)    \* todo!()
      [] inst.op = "Recv" -> Panic(s)    \* todo!()
      [] inst.op = "Push" -> ExecPush(s, inst)
      [] inst.op = "Pop" -> ExecPop(s, inst)

\* ActorVm::pc: the index held by PC, or a panic ("PC is not a reference").
Pc(s) ==
    LET pc == RegisterGet(s.register, "PC")
    IN IF pc.tag = "Ref" THEN Some(pc.v) ELSE None

\* A tick that increments PC after the instruction has run.
tickIncrementsLast(prog, s, checks) ==
    LET pc == Pc(s)
    IN IF ~pc.some THEN Panic(s)
       ELSE IF pc.value >= Len(prog) THEN Panic(s)
       ELSE LET r == Execute(s, prog[pc.value + 1], checks)
            IN IF r.panic THEN r
               ELSE IF ~Pc(r).some THEN Panic(r)
               ELSE [r EXCEPT !.register =
                        RegisterSet(@, "PC", ValueRef(Pc(r).value + 1))]

\* ActorVm::tick on the actor state s with the program prog: the fetch (a
\* panic when PC is no Ref or indexes no instruction), PC := pc + 1, then the
\* instruction.  running is not read.
tick(prog, s, checks) ==
    LET pc == Pc(s)
    IN IF ~pc.some THEN Panic(s)
       ELSE IF pc.value >= Len(prog) THEN Panic(s)
       ELSE Execute([s EXCEPT !.register =
                        RegisterSet(@, "PC", ValueRef(pc.value + 1))],
                    prog[pc.value + 1], checks)

(***************************************************************************)
(* The programs given to ActorVm::new, and the values posted.              *)
(***************************************************************************)
IntLits == {IntMin, -7, -1, 0, 2, 5, IntMax}
FloatLits == {FFin(0, 1), FFin(3, 2), FFin(-2, 1), FNaN}

\* The instructions that load a literal or a new container into reg.
Loads(reg) ==
    {InstInt(reg, i) : i \in IntLits} \cup
    {InstFloat(reg, f) : f \in FloatLits} \cup
    {InstBool(reg, TRUE), InstRef(reg, 1), InstString(reg, "a"),
     InstString(reg, "b"), InstAtom(reg, "a"), InstList(reg, 2),
     InstTuple(reg, 2), InstMap(reg)}

BinaryInsts ==
    {InstArith(op, "R0", "R1", "R2") : op \in ArithOps} \cup
    {InstCmp(op, "R0", "R1") : op \in {"Eq", "Ne"} \cup OrderedOps}

\* Two loads, then an arithmetic or comparison instruction on them.
BinaryPrograms ==
    {<<l0, l1, inst, InstHlt>> :
        l0 \in Loads("R0"), l1 \in Loads("R1"), inst \in BinaryInsts}

\* Arithmetic whose operands or destination are PC, ZF or a source register.
RegisterPrograms ==
    {<<InstInt("R0", 2), InstInt("R1", 5), InstArith(op, r[1], r[2], r[3]), InstHlt,
       InstHlt, InstHlt, InstHlt, InstHlt>> :
        op \in ArithOps,
        r \in {<<"R0", "R1", "R0">>, <<"R0", "R0", "R1">>, <<"R0", "R1", "PC">>,
               <<"R0", "R1", "ZF">>, <<"PC", "R1", "R2">>, <<"R0", "ZF", "R2">>,
               <<"PC", "PC", "R2">>, <<"R3", "R4", "PC">>}}

\* A container, a key and a value, then SetC and MoveC.
ContainerPrograms ==
    {<<c, k, v, InstSetC("R2", "R0", "R1"), InstMoveC("R2", "R0", "R3"), InstHlt>> :
        c \in {InstList("R2", n) : n \in 0..MaxSize} \cup
              {InstTuple("R2", 2), InstMap("R2"), InstInt("R2", 0)},
        k \in {InstInt("R0", i) : i \in -1..MaxSize} \cup
              {InstRef("R0", 0), InstFloat("R0", FFin(0, 1))},
        v \in {InstInt("R1", 5), InstString("R1", "a"), InstList("R1", 2),
               InstMap("R1")}}

\* Two writes into one list, then a read of the element written last.
TwoWritePrograms ==
    {<<InstList("R2", n), InstInt("R0", i), InstInt("R1", 5),
       InstSetC("R2", "R0", "R1"), InstInt("R0", j), InstString("R1", "a"),
       InstSetC("R2", "R0", "R1"), InstMoveC("R2", "R0", "R3"), InstHlt>> :
        n \in 2..(MaxSize + 1), i \in 0..2, j \in 0..2}

\* SetC and MoveC whose registers coincide or are PC.
AliasPrograms ==
    {<<InstList("R2", 3), InstInt("R0", 1), InstInt("R1", 5), i1, i2, InstHlt>> :
        i1 \in {InstSetC("R2", "R0", "R1"), InstSetC("R2", "R0", "R2"),
                InstSetC("R2", "R0", "R0"), InstSetC("R2", "R0", "PC"),
                InstSetC("R2", "R2", "R1"), InstSetC("PC", "R0", "R1")},
        i2 \in {InstMoveC("R2", "R0", "R3"), InstMoveC("R2", "R0", "R2"),
                InstMoveC("R2", "R0", "R0"), InstMoveC("R2", "R0", "PC"),
                InstMoveC("R2", "R0", "ZF")}}

\* The list and tuple constructors alone.
MakePrograms ==
    {<<inst, InstHlt>> :
        inst \in {InstList(r, n) : r \in {"R0", "R7", "LR"}, n \in 0..MaxSize} \cup
                 {InstTuple(r, n) : r \in {"R0", "R7", "LR"}, n \in 0..MaxSize}}

\* Instructions after a Hlt.
HaltPrograms ==
    {<<InstHlt, i1, i2, InstHlt>> :
        i1 \in {InstInt("R0", 1), InstPush("R1"), InstJump(0), InstBool("ZF", TRUE),
                InstPop("R0"), InstHlt},
        i2 \in {InstInt("R1", 2), InstMove("R0", "R3"), InstRecv("R0")}} \cup
    {<<l0, InstHlt, InstArith("Add", "R0", "R0", "R1"), InstHlt>> : l0 \in Loads("R0")}

StackPrograms ==
    {<<l0, InstPush("R0"), l1, InstPush(r), InstPop("R2"), InstPop("R3"),
       InstPop("R4"), InstHlt>> :
        l0 \in {InstInt("R0", 5), InstList("R0", 2), InstMap("R0")},
        l1 \in {InstInt("R1", 2), InstString("R1", "a")},
        r \in {"R1", "R0", "PC", "ZF"}} \cup
    {<<InstPop(r)>> : r \in {"R0", "PC"}} \cup
    {<<InstInt("R0", 5), InstPush("R0"), InstJump(1)>>,
     <<InstInt("R0", 5), InstPush("R0"), InstPop("R0"), InstHlt>>,
     <<InstPush("PC"), InstPop("PC"), InstHlt>>}

HeapPrograms ==
    {<<l0, InstStore("R0", address), InstLoad(address, "R1"), InstHlt>> :
        l0 \in {InstInt("R0", 5), InstString("R0", "a")},
        address \in {0, 1, 999, 1000}} \cup
    {<<InstLoad(address, "R1"), InstHlt>> : address \in {0, 999, 1000}}

MovePrograms ==
    {<<l0, InstMove("R0", r), InstJumpIf(0), InstHlt>> :
        l0 \in Loads("R0"), r \in {"R1", "PC", "ZF", "R0"}} \cup
    {<<InstBool("ZF", b), InstJumpIf(address), InstInt("R2", 1), InstHlt>> :
        b \in BOOLEAN, address \in {0, 3, 4, 9}} \cup
    {<<InstInt("R0", 1), InstJump(address), InstInt("R1", 2), InstHlt>> :
        address \in {0, 1, 2, 3, 4, 9}} \cup
    {<<inst, InstInt("R0", 1), InstHlt>> :
        inst \in {InstInt("PC", 1), InstRef("PC", 2), InstRef("PC", 9),
                  InstList("PC", 2), InstBool("PC", TRUE), InstInt("ZF", 1),
                  InstRef("LR", 1), InstMap("ZF")}}

MessagePrograms ==
    {<<InstRecv("R1"), InstHlt>>,
     <<InstInt("R0", 42), InstRecv("R1"), InstHlt>>,
     <<InstInt("R0", 42), InstRef("R1", 1), InstSend("R1", "R0"), InstHlt>>,
     <<InstInt("R0", 42), InstRef("R1", 0), InstSend("R1", "R0"), InstRecv("R2"), InstHlt>>}

\* The end-to-end programs of the specification's scenarios A, B and "jump".
ScenarioA ==
    <<InstInt("R1", 123), InstMove("R1", "R0"), InstArith("Add", "R0", "R1", "R2"),
      InstHlt>>
ScenarioB ==
    <<InstList("R2", 10), InstInt("R0", 1), InstInt("R1", 5),
      InstSetC("R2", "R0", "R1"), InstMoveC("R2", "R0", "R3"), InstHlt>>
ScenarioJump ==
    <<InstInt("R0", 0), InstInt("R1", 1), InstCmp("Eq", "R0", "R1"), InstJumpIf(5),
      InstInt("R2", 1), InstHlt>>

Programs ==
    BinaryPrograms \cup RegisterPrograms \cup ContainerPrograms \cup
    TwoWritePrograms \cup AliasPrograms \cup MakePrograms \cup HaltPrograms \cup
    StackPrograms \cup HeapPrograms \cup MovePrograms \cup MessagePrograms \cup
    {ScenarioA, ScenarioB, ScenarioJump, <<>>}

\* The values posted from outside.
PostValues == {ValueInt(42), ValueList(<<ValueString("a")>>)}

(***************************************************************************)
(* The actors.                                                             *)
(***************************************************************************)
Actors == DOMAIN program

\* The state of actor a that tick works on.
ActorState(a) ==
    [register |-> register[a], stack |-> stack[a], heap |-> heap[a],
     running |-> running[a], panic |-> FALSE]

\* The instruction a tick on s fetches, if it fetches one.
Fetched(prog, s) ==
    LET pc == Pc(s)
    IN IF pc.some /\ pc.value < Len(prog) THEN prog[pc.value + 1]
       ELSE [op |-> "NoInst"]

\* The history record of a tick: the instruction, the actor before (pre) and
\* after (post), and the actors that had failed before it.
TickRecord(a, s, r) ==
    [inst |-> Fetched(program[a], s), pre |-> s, post |-> r,
     failedPeers |-> {b \in Actors : failed[b]}]

Keep(h) == IF Len(h) > HistLen THEN Tail(h) ELSE h

\* ActorVm::new for every actor of progs (a function from actor to program);
\* the heap is Vec::with_capacity(1000), a Vec of length 0.
ActorVmNew(progs) ==
    /\ program = progs
    /\ register = [a \in DOMAIN progs |-> RegisterNew]
    /\ stack = [a \in DOMAIN progs |-> <<>>]
    /\ heap = [a \in DOMAIN progs |-> <<>>]
    /\ mailbox = [a \in DOMAIN progs |-> MailboxNew]
    /\ running = [a \in DOMAIN progs |-> TRUE]
    /\ failed = [a \in DOMAIN progs |-> FALSE]
    /\ hist = [a \in DOMAIN progs |-> <<>>]
    /\ lock = [a \in DOMAIN progs |-> FALSE]
    /\ calls = [a \in DOMAIN progs |-> <<>>]

NoHistory ==
    /\ posted = <<>>
    /\ taken = <<>>
    /\ lastTake = [called |-> FALSE]
    /\ probe = [op |-> "none"]

\* A tick whose panic takes every actor down with it (the process aborts).
TickAbortsAll(a) ==
    /\ ~failed[a]
    /\ Len(stack[a]) <= MaxStack
    /\ UNCHANGED <<program, mailbox, posted, taken, lastTake, probe>>
    /\ UNCHANGED lockVars
    /\ \E checks \in BOOLEAN, s \in {ActorState(a)} :
          \E r \in {tick(program[a], s, checks)} :
             /\ register' = [register EXCEPT ![a] = r.register]
             /\ stack' = [stack EXCEPT ![a] = r.stack]
             /\ heap' = [heap EXCEPT ![a] = r.heap]
             /\ running' = [running EXCEPT ![a] = r.running]
             /\ failed' = [b \in Actors |-> failed[b] \/ r.panic]
             /\ hist' = [hist EXCEPT ![a] = Keep(Append(@, TickRecord(a, s, r)))]

\* One call of tick on actor a by its driver.
Tick(a) ==
    /\ ~failed[a]
    /\ Len(stack[a]) <= MaxStack
    /\ UNCHANGED <<program, mailbox, posted, taken, lastTake, probe>>
    /\ UNCHANGED lockVars
    /\ \E checks \in BOOLEAN, s \in {ActorState(a)} :
          \E r \in {tick(program[a], s, checks)} :
             /\ register' = [register EXCEPT ![a] = r.register]
             /\ stack' = [stack EXCEPT ![a] = r.stack]
             /\ heap' = [heap EXCEPT ![a] = r.heap]
             /\ running' = [running EXCEPT ![a] = r.running]
             /\ failed' = [failed EXCEPT ![a] = r.panic]
             /\ hist' = [hist EXCEPT ![a] = Keep(Append(@, TickRecord(a, s, r)))]

\* ActorVm::post, called from outside the actor.
Post(a, value) ==
    /\ ~failed[a]
    /\ Len(mailbox[a]) < MaxMailbox
    /\ mailbox' = [mailbox EXCEPT ![a] = MailboxPost(@, value)]
    /\ UNCHANGED <<program, register, stack, heap, running, failed, hist,
                   posted, taken, lastTake, probe>>
    /\ UNCHANGED lockVars

Init ==
    /\ \E p \in Programs : ActorVmNew(0 :> p)
    /\ NoHistory

TickAny == \E a \in Actors : Tick(a)

PostAny == \E a \in Actors, value \in PostValues : Post(a, value)

Next == TickAny \/ PostAny

Spec == Init /\ [][Next]_vars

(***************************************************************************)
(* SpecActors: two actors, each with a driver of its own.                  *)
(***************************************************************************)
ActorPrograms ==
    {ScenarioA,
     <<InstInt("R0", 42), InstRef("R1", 1), InstSend("R1", "R0"), InstHlt>>,
     <<InstRecv("R1"), InstHlt>>,
     <<InstInt("R0", 5), InstPush("R0"), InstList("R2", 2), InstHlt>>,
     <<InstInt("R0", 1)>>,
     <<InstJump(9), InstHlt>>,
     <<InstPop("R0"), InstHlt>>,
     <<InstInt("R0", 5), InstStore("R0", 1000), InstHlt>>,
     <<InstLoad(1000, "R1"), InstHlt>>,
     <<InstInt("R0", 5), InstInt("R1", 0), InstArith("Div", "R0", "R1", "R2"), InstHlt>>,
     <<InstInt("R0", 5), InstInt("R1", 0), InstArith("Mod", "R0", "R1", "R2"), InstHlt>>,
     <<InstString("R0", "a"), InstCmp("Gt", "R0", "R1"), InstHlt>>,
     <<InstInt("R0", 5), InstCmp("Lte", "R0", "R1"), InstHlt>>,
     <<InstInt("PC", 1), InstHlt>>}

InitActors ==
    /\ \E p \in ActorPrograms, q \in ActorPrograms : ActorVmNew(0 :> p @@ 1 :> q)
    /\ NoHistory

SpecActors == InitActors /\ [][Next]_vars

(***************************************************************************)
(* SpecMailbox: one Mailbox, its post called by several posters and its    *)
(* take by the owner, in any order.                                        *)
(***************************************************************************)
Posters == {"p1", "p2"}

NoActors ==
    /\ program = <<>>
    /\ register = <<>>
    /\ stack = <<>>
    /\ heap = <<>>
    /\ running = <<>>
    /\ failed = <<>>
    /\ hist = <<>>
    /\ lock = <<>>
    /\ calls = <<>>

InitMailbox ==
    /\ NoActors
    /\ mailbox = (0 :> MailboxNew)
    /\ NoHistory

\* Mailbox::post called by poster.
MailboxPostCall(poster, value) ==
    /\ Len(posted) < MaxPosts
    /\ mailbox' = [mailbox EXCEPT ![0] = MailboxPost(@, value)]
    /\ posted' = Append(posted, <<poster, value>>)
    /\ UNCHANGED <<program, register, stack, heap, running, failed, hist,
                   taken, lastTake, probe>>
    /\ UNCHANGED lockVars

\* Mailbox::take
MailboxTakeCall ==
    LET r == MailboxTake(mailbox[0])
    IN /\ mailbox' = [mailbox EXCEPT ![0] = r.messages]
       /\ taken' = IF r.result.some THEN Append(taken, r.result.value) ELSE taken
       /\ lastTake' = [called |-> TRUE, before |-> mailbox[0],
                       result |-> r.result, after |-> r.messages]
       /\ UNCHANGED <<program, register, stack, heap, running, failed, hist,
                      posted, probe>>
       /\ UNCHANGED lockVars

MailboxPostAny ==
    \E poster \in Posters, value \in PostValues \cup {ValueRef(0)} :
        MailboxPostCall(poster, value)

NextMailbox == MailboxPostAny \/ MailboxTakeCall

SpecMailbox == InitMailbox /\ [][NextMailbox]_vars

(***************************************************************************)
(* SpecValue: Value::clone and Register::set / Register::get applied to    *)
(* the values of Values.                                                   *)
(***************************************************************************)
Scalars ==
    {ValueRef(0), ValueInt(-1), ValueFloat(FFin(3, 2)), ValueBool(TRUE),
     ValueString("a"), ValueAtom("a")}

SeqsUpTo(S, n) == UNION {[1..m -> S] : m \in 0..n}

\* The maps of at most one entry over S, and one of two entries.
MapsOver(S) ==
    {{}} \cup {{<<k, v>>} : k \in S, v \in S} \cup
    {{<<ValueInt(-1), v>>, <<ValueString("a"), v>>} : v \in S}

ContainersOver(S) ==
    {ValueList(l) : l \in SeqsUpTo(S, 2)} \cup
    {ValueTuple(t) : t \in SeqsUpTo(S, 1)} \cup
    {ValueMap(m) : m \in MapsOver(S)}

Values ==
    Scalars \cup ContainersOver(Scalars) \cup
    {ValueList(<<c>>) : c \in ContainersOver({ValueInt(-1), ValueString("a")})} \cup
    {ValueTuple(<<c, ValueInt(-1)>>) : c \in ContainersOver({ValueInt(-1)})} \cup
    {ValueMap({<<ValueAtom("a"), c>>}) : c \in ContainersOver({ValueInt(-1)})}

ProbeRegs == {"R3", "ZF"}

\* The value the call is made on is drawn first; probe.op says what was called.
InitValue ==
    /\ program = <<>>
    /\ register = (0 :> RegisterNew)
    /\ stack = <<>>
    /\ heap = <<>>
    /\ mailbox = <<>>
    /\ running = <<>>
    /\ failed = <<>>
    /\ hist = <<>>
    /\ lock = <<>>
    /\ calls = <<>>
    /\ posted = <<>>
    /\ taken = <<>>
    /\ lastTake = [called |-> FALSE]
    /\ \E value \in Values : probe = [op |-> "none", value |-> value]

\* Value::clone called on the value.
CloneCall ==
    /\ probe.op = "none"
    /\ probe' = [op |-> "clone", value |-> probe.value,
                 result |-> clone(probe.value)]
    /\ UNCHANGED <<program, register, stack, heap, mailbox, running, failed,
                   hist, posted, taken, lastTake>>
    /\ UNCHANGED lockVars

\* Register::set(reg, value), then Register::get(reg).
SetGetCall(reg) ==
    /\ probe.op = "none"
    /\ register' = [register EXCEPT ![0] = RegisterSet(@, reg, probe.value)]
    /\ probe' = [op |-> "setget", value |-> probe.value,
                 result |-> RegisterGet(register'[0], reg)]
    /\ UNCHANGED <<program, stack, heap, mailbox, running, failed, hist,
                   posted, taken, lastTake>>
    /\ UNCHANGED lockVars

SetGetAny == \E reg \in ProbeRegs : SetGetCall(reg)

NextValue == CloneCall \/ SetGetAny

SpecValue == InitValue /\ [][NextValue]_vars

(***************************************************************************)
(* SpecLock: get_tick and release called on two actors, in any order.      *)
(***************************************************************************)
\* The calls of get_tick and release made on one actor.
MaxCalls == 4

InitLock ==
    /\ ActorVmNew(0 :> ScenarioA @@ 1 :> ScenarioJump)
    /\ NoHistory

\* ActorVm::get_tick: try_lock().is_ok().  The guard try_lock returns is a
\* temporary of the statement and is dropped, unlocking the Mutex, before
\* get_tick returns; &mut self excludes any other caller meanwhile.
GetTick(a) ==
    /\ Len(calls[a]) < MaxCalls
    /\ LET ok == ~lock[a]
       IN /\ lock' = [lock EXCEPT ![a] = IF ok THEN FALSE ELSE @]
          /\ calls' = [calls EXCEPT ![a] =
                          Append(@, [op |-> "get_tick", result |-> ok])]
    /\ UNCHANGED <<program, register, stack, heap, mailbox, running, failed,
                   hist, posted, taken, lastTake, probe>>

\* ActorVm::release: its body is empty.
Release(a) ==
    /\ Len(calls[a]) < MaxCalls
    /\ calls' = [calls EXCEPT ![a] = Append(@, [op |-> "release", result |-> TRUE])]
    /\ UNCHANGED <<program, register, stack, heap, mailbox, running, failed,
                   hist, posted, taken, lastTake, probe, lock>>

GetTickAny == \E a \in Actors : GetTick(a)

ReleaseAny == \E a \in Actors : Release(a)

NextLock == GetTickAny \/ ReleaseAny

SpecLock == InitLock /\ [][NextLock]_vars

(***************************************************************************)
(* The claims.                                                             *)
(***************************************************************************)
Last(h) == h[Len(h)]

\* The instruction the next tick of actor a fetches.
Inst(a) == Fetched(program[a], ActorState(a))

\* The value that instruction reads from reg: PC is incremented before the
\* instruction runs.
Operand(a, reg) ==
    IF reg = "PC" THEN ValueRef(register[a]["PC"].v + 1) ELSE register[a][reg]

\* The same of a tick record.
OperandOf(rec, reg) ==
    IF reg = "PC" THEN ValueRef(rec.pre.register["PC"].v + 1)
    ELSE rec.pre.register[reg]

PostedValues == [i \in 1..Len(posted) |-> posted[i][2]]

\* C1: in every state of a Mailbox the values committed by post, in the order
\* of the commits, are the values take has returned followed by the mailbox's
\* contents (so take returns the oldest entry, nothing is lost, duplicated or
\* reordered, and each poster's own order is kept); a take on an empty mailbox
\* returns None and leaves the mailbox as it was.
C1_MailboxFifo ==
    /\ PostedValues = taken \o mailbox[0]
    /\ lastTake.called =>
          IF lastTake.before = <<>>
          THEN lastTake.result = None /\ lastTake.after = <<>>
          ELSE /\ lastTake.result = Some(Head(lastTake.before))
               /\ lastTake.after = Tail(lastTake.before)

\* Both posters have posted, take has returned the oldest entry and a
\* different, younger entry is still queued.
C1_Witness ==
    /\ {posted[i][1] : i \in DOMAIN posted} = Posters
    /\ lastTake.called /\ lastTake.before # <<>>
    /\ Len(taken) >= 1 /\ Len(mailbox[0]) >= 1
    /\ taken[1] # mailbox[0][1]

\* C2: a tick on an actor that has executed Hlt (running is false) changes
\* neither its registers nor its stack, heap and mailbox, and does not fail.
C2_HaltedTickIsNoOp ==
    [][\A a \in Actors :
          (Tick(a) /\ ~running[a]) =>
              /\ register'[a] = register[a]
              /\ stack'[a] = stack[a]
              /\ heap'[a] = heap[a]
              /\ mailbox'[a] = mailbox[a]
              /\ ~failed'[a]]_vars

\* The last tick of a was a Recv that wrote nothing and did not fail.
SuspendedOnRecv(a) ==
    /\ hist[a] # <<>>
    /\ Last(hist[a]).inst.op = "Recv"
    /\ ~failed[a]
    /\ register[a][Last(hist[a]).inst.reg] =
          OperandOf(Last(hist[a]), Last(hist[a]).inst.reg)

\* C3: a tick that executes Recv(dest) on an empty mailbox does not fail and
\* leaves dest and the mailbox as they were; a tick of an actor waiting in
\* Recv(dest) whose mailbox holds a value writes the oldest value into dest
\* and removes it from the mailbox, the actor running on.
C3_RecvSuspendsThenDelivers ==
    [][\A a \in Actors :
          Tick(a) =>
              /\ (Inst(a).op = "Recv" /\ mailbox[a] = <<>>) =>
                    /\ ~failed'[a] /\ running'[a]
                    /\ register'[a][Inst(a).reg] = register[a][Inst(a).reg]
                    /\ mailbox'[a] = mailbox[a]
              /\ ((Inst(a).op = "Recv" \/ SuspendedOnRecv(a)) /\ mailbox[a] # <<>>) =>
                    LET dest == IF Inst(a).op = "Recv" THEN Inst(a).reg
                                ELSE Last(hist[a]).inst.reg
                    IN /\ ~failed'[a] /\ running'[a]
                       /\ register'[a][dest] = Head(mailbox[a])
                       /\ mailbox'[a] = Tail(mailbox[a])]_vars

\* C4: a tick of a that executes Send(target, value), target holding the Ref
\* of an actor b, appends value's value to b's mailbox, leaves value as it was
\* and a running and not failed, a receiver b of program [Recv(R1), Hlt] not
\* having failed before it; and when the sender of 42 and that receiver have
\* both run to their Hlt, the receiver's R1 is Int(42).
C4_SendDelivers ==
    /\ [][\A a \in Actors :
            (/\ Tick(a)
             /\ Inst(a).op = "Send"
             /\ Operand(a, Inst(a).reg).tag = "Ref"
             /\ Operand(a, Inst(a).reg).v \in Actors) =>
                LET b == Operand(a, Inst(a).reg).v
                IN /\ mailbox'[b] = Append(mailbox[b], Operand(a, Inst(a).reg1))
                   /\ Inst(a).reg1 # "PC" =>
                         register'[a][Inst(a).reg1] = register[a][Inst(a).reg1]
                   /\ ~failed'[a] /\ running'[a]
                   /\ program[b] = <<InstRecv("R1"), InstHlt>> => ~failed[b]]_vars
    /\ [](\A a, b \in Actors :
            (/\ program[a] = <<InstInt("R0", 42), InstRef("R1", b),
                               InstSend("R1", "R0"), InstHlt>>
             /\ program[b] = <<InstRecv("R1"), InstHlt>>
             /\ ~running[a] /\ ~running[b]) =>
                register[b]["R1"] = ValueInt(42))

HeapCapacity == 1000

\* The fatal errors of the specification's section 7, for the next tick of a.
FatalCondition(a) ==
    \/ register[a]["PC"].tag # "Ref"
    \/ register[a]["PC"].v >= Len(program[a])
    \/ Inst(a).op = "Pop" /\ stack[a] = <<>>
    \/ Inst(a).op \in {"Load", "Store"} /\ Inst(a).address >= HeapCapacity
    \/ /\ Inst(a).op \in {"Div", "Mod"}
       /\ Operand(a, Inst(a).r0).tag = "Int"
       /\ Operand(a, Inst(a).r1) = ValueInt(0)
    \/ /\ Inst(a).op \in OrderedOps
       /\ <<Operand(a, Inst(a).r0).tag, Operand(a, Inst(a).r1).tag>> \notin
             {<<"Int", "Int">>, <<"Float", "Float">>}

C6_MakeFillsAllSlots ==
    [][\A a \in Actors :
          (Tick(a) /\ Inst(a).op \in {"List", "Tuple"}) =>
              LET made == register'[a][Inst(a).reg]
              IN /\ made.tag = Inst(a).op
                 /\ Len(made.v) = Inst(a).size
                 /\ \A j \in 1..Len(made.v) : made.v[j] = ValueRef(0)]_vars

\* C7: the clone of a value equals the value, and Register::get returns a
\* value equal to the one Register::set was given.
C7_CloneEqual ==
    probe.op \in {"clone", "setget"} => probe.result = probe.value

\* The SetC of a tick record found a List and an index inside it.
SetCInRange(rec) ==
    /\ rec.inst.op = "SetC"
    /\ OperandOf(rec, rec.inst.target).tag = "List"
    /\ OperandOf(rec, rec.inst.key).tag = "Int"
    /\ OperandOf(rec, rec.inst.key).v >= 0
    /\ OperandOf(rec, rec.inst.key).v < Len(OperandOf(rec, rec.inst.target).v)

\* C8: a SetC(c, k, v) that finds in c a List and in k an index i inside it
\* does not fail and changes, beside PC, only c, and of the list in c only
\* element i, which becomes v's value; a MoveC(c, k, d) that is the next tick
\* leaves v's value in d; and scenario B reaches its Hlt with R3 = Int(5).
C8_SetThenGet ==
    /\ [][\A a \in Actors :
            (/\ Tick(a)
             /\ Inst(a).op = "SetC"
             /\ Operand(a, Inst(a).target).tag = "List"
             /\ Operand(a, Inst(a).key).tag = "Int"
             /\ Operand(a, Inst(a).key).v \in
                   0..(Len(Operand(a, Inst(a).target).v) - 1)) =>
                /\ ~failed'[a]
                /\ stack'[a] = stack[a] /\ heap'[a] = heap[a]
                /\ register'[a] =
                      [register[a] EXCEPT
                          !["PC"] = ValueRef(@.v + 1),
                          ![Inst(a).target] =
                              ValueList([@.v EXCEPT
                                  ![Operand(a, Inst(a).key).v + 1] =
                                      Operand(a, Inst(a).value)])]]_vars
    /\ [](\A a \in Actors :
            \A n \in 1..(Len(hist[a]) - 1) :
                (/\ SetCInRange(hist[a][n])
                 /\ hist[a][n + 1].inst.op = "MoveC"
                 /\ hist[a][n + 1].inst.from = hist[a][n].inst.target
                 /\ hist[a][n + 1].inst.key = hist[a][n].inst.key) =>
                    /\ ~hist[a][n + 1].post.panic
                    /\ hist[a][n + 1].post.register[hist[a][n + 1].inst.to] =
                          OperandOf(hist[a][n], hist[a][n].inst.value))
    /\ [](\A a \in Actors :
            program[a] = ScenarioB =>
                /\ failed[a] => ~running[a]
                /\ ~running[a] => register[a]["R3"] = ValueInt(5))

\* A list whose element 0 is Int(5) got "a" written at index 1 and MoveC has
\* read it back into R3.
C8_Witness ==
    \E a \in Actors :
        /\ Len(hist[a]) >= 2
        /\ SetCInRange(hist[a][Len(hist[a]) - 1])
        /\ Last(hist[a]).inst = InstMoveC("R2", "R0", "R3")
        /\ register[a]["R0"] = ValueInt(1)
        /\ register[a]["R3"] = ValueString("a")
        /\ register[a]["R2"] = ValueList(<<ValueInt(5), ValueString("a"), ValueRef(0)>>)

\* C9: a tick that executes SetC or MoveC when the container register holds
\* no List, or the index register no Int, fails.
C9_IndexedTypeMismatchReported ==
    [][\A a \in Actors :
          (/\ Tick(a)
           /\ Inst(a).op \in {"SetC", "MoveC"}
           /\ LET c == IF Inst(a).op = "SetC" THEN Inst(a).target ELSE Inst(a).from
              IN \/ Operand(a, c).tag # "List"
                 \/ Operand(a, Inst(a).key).tag # "Int") =>
              failed'[a]]_vars

\* The tags of the operands are a pair the arithmetic instructions work on.
ArithSupported(t0, t1) ==
    <<t0, t1>> \in {<<"Int", "Int">>, <<"Float", "Float">>}

\* C10: a tick that executes Add, Sub, Mul, Div or Mod on operands whose tags
\* are neither (Int, Int) nor (Float, Float) does not fail, adds one to PC and
\* leaves every other register, the stack, the heap, the mailbox and the
\* running flag as they were.
C10_ArithMismatchNoOp ==
    [][\A a \in Actors :
          (/\ Tick(a)
           /\ Inst(a).op \in ArithOps
           /\ ~ArithSupported(Operand(a, Inst(a).r0).tag,
                              Operand(a, Inst(a).r1).tag)) =>
              /\ ~failed'[a]
              /\ register'[a] = [register[a] EXCEPT !["PC"] = ValueRef(@.v + 1)]
              /\ stack'[a] = stack[a]
              /\ heap'[a] = heap[a]
              /\ mailbox'[a] = mailbox[a]
              /\ running'[a] = running[a]]_vars

\* A Div of a String by an Int has been ticked, with a value in the mailbox.
C10_Witness ==
    \E a \in Actors :
        /\ hist[a] # <<>>
        /\ Last(hist[a]).inst = InstArith("Div", "R0", "R1", "R2")
        /\ register[a]["R0"].tag = "String"
        /\ register[a]["R1"] = ValueInt(0)
        /\ register[a]["R2"] = ValueRef(0)
        /\ register[a]["PC"] = ValueRef(3)
        /\ mailbox[a] # <<>>
        /\ ~failed[a]

\* The tags of the operands are a pair Eq and Ne compare.
EqNeSupported(t0, t1) ==
    <<t0, t1>> \in {<<"Int", "Int">>, <<"Float", "Float">>, <<"String", "String">>}

\* v0 == v1 as Rust's == on the payloads of a supported pair.
PayloadEq(v0, v1) == IF v0.tag = "Float" THEN FEq(v0.v, v1.v) ELSE v0.v = v1.v

\* C11: a tick that executes Eq or Ne does not fail; on an (Int, Int),
\* (Float, Float) or (String, String) pair it leaves in ZF Bool(v0 = v1) for
\* Eq and Bool(v0 /= v1) for Ne, and on any other pair it leaves ZF and the
\* running flag as they were.
C11_EqNeTolerant ==
    [][\A a \in Actors :
          (Tick(a) /\ Inst(a).op \in {"Eq", "Ne"}) =>
              LET v0 == Operand(a, Inst(a).r0)
                  v1 == Operand(a, Inst(a).r1)
              IN /\ ~failed'[a]
                 /\ running'[a] = running[a]
                 /\ IF EqNeSupported(v0.tag, v1.tag)
                    THEN register'[a]["ZF"] =
                            ValueBool(PayloadEq(v0, v1) = (Inst(a).op = "Eq"))
                    ELSE register'[a]["ZF"] = register[a]["ZF"]]_vars

\* C12: a tick that executes Div or Mod on (Int a, Int 0) fails, whatever a
\* is, and leaves every register but the already incremented PC, the stack
\* and the heap as they were; the failed actor is not ticked again.
C12_DivModByZeroFatal ==
    /\ [][\A a \in Actors :
            (/\ Tick(a)
             /\ Inst(a).op \in {"Div", "Mod"}
             /\ Operand(a, Inst(a).r0).tag = "Int"
             /\ Operand(a, Inst(a).r1) = ValueInt(0)) =>
                /\ failed'[a]
                /\ register'[a] = [register[a] EXCEPT !["PC"] = ValueRef(@.v + 1)]
                /\ stack'[a] = stack[a]
                /\ heap'[a] = heap[a]]_vars
    /\ [](\A a \in Actors : failed[a] => ~ENABLED Tick(a))

\* A Mod of i64::MIN by Int(0) has failed, R2 still holding Ref(0).
C12_Witness ==
    \E a \in Actors :
        /\ failed[a]
        /\ Last(hist[a]).inst = InstArith("Mod", "R0", "R1", "R2")
        /\ register[a]["R0"] = ValueInt(IntMin)
        /\ register[a]["R1"] = ValueInt(0)
        /\ register[a]["R2"] = ValueRef(0)
        /\ register[a]["PC"] = ValueRef(3)

\* C13: a tick that executes Div or Mod on (Int x, Int y), y /= 0, does not
\* fail, whatever x and y are; Div writes the quotient q truncated toward zero
\* and Mod the remainder r = x - q * y, which has the sign of x and |r| < |y|.
C13_DivModTruncates ==
    [][\A a \in Actors :
          (/\ Tick(a)
           /\ Inst(a).op \in {"Div", "Mod"}
           /\ Operand(a, Inst(a).r0).tag = "Int"
           /\ Operand(a, Inst(a).r1).tag = "Int"
           /\ Operand(a, Inst(a).r1).v # 0) =>
              LET x == Operand(a, Inst(a).r0).v
                  y == Operand(a, Inst(a).r1).v
                  q == TruncDiv(x, y)
                  r == x - q * y
              IN /\ ~failed'[a]
                 /\ Abs(r) < Abs(y)
                 /\ r # 0 => (r < 0) = (x < 0)
                 /\ Abs(q) * Abs(y) <= Abs(x)
                 /\ register'[a][Inst(a).r2] =
                       ValueInt(IF Inst(a).op = "Div" THEN q ELSE r)]_vars

\* C14: a tick that executes JumpIf(address) leaves PC at address when ZF
\* holds Bool(true) and at the incremented value when it holds anything else,
\* and changes no other register, nor the stack or the heap; the program
\* ScenarioJump does not fail before its Hlt and is halted with R2 = Int(1)
\* and ZF = Bool(false).
C14_JumpIfTrue ==
    /\ [][\A a \in Actors :
            (Tick(a) /\ Inst(a).op = "JumpIf") =>
                /\ register'[a] =
                      [register[a] EXCEPT !["PC"] =
                          IF register[a]["ZF"] = ValueBool(TRUE)
                          THEN ValueRef(Inst(a).address)
                          ELSE ValueRef(@.v + 1)]
                /\ register[a]["ZF"].tag = "Bool" => ~failed'[a]
                /\ stack'[a] = stack[a]
                /\ heap'[a] = heap[a]]_vars
    /\ [](\A a \in Actors :
            program[a] = ScenarioJump =>
                /\ failed[a] => ~running[a]
                /\ ~running[a] =>
                      /\ register[a]["R2"] = ValueInt(1)
                      /\ register[a]["ZF"] = ValueBool(FALSE))

\* ScenarioJump has run through its JumpIf, not taken, to its Hlt.
C14_Witness ==
    \E a \in Actors :
        /\ program[a] = ScenarioJump
        /\ ~running[a] /\ ~failed[a]
        /\ Last(hist[a]).inst = InstHlt
        /\ register[a]["PC"] = ValueRef(6)
        /\ register[a]["R2"] = ValueInt(1)
        /\ register[a]["ZF"] = ValueBool(FALSE)

\* The registers the instruction inst may write (PC's increment apart).
Written(inst) ==
    CASE inst.op \in {"Load", "Bool", "Int", "Float", "Ref", "String", "Atom",
                      "Tuple", "List", "Map", "Push", "Pop", "Recv"} -> {inst.reg}
      [] inst.op = "SetC" -> {inst.target}
      [] inst.op = "MoveC" -> {inst.to}
      [] inst.op = "Move" -> {inst.r2}
      [] inst.op \in ArithOps -> {inst.r2}
      [] inst.op \in {"Eq", "Ne"} \cup OrderedOps -> {"ZF"}
      [] inst.op \in {"Jump", "JumpIf"} -> {"PC"}
      [] OTHER -> {}

\* C15: a tick of a running actor that fetches an instruction other than
\* Jump, a JumpIf with ZF = Bool(true) and an instruction that writes PC
\* leaves PC at the old PC plus one, also when the instruction fails; a tick
\* that fetches Jump(address) leaves PC at address.
C15_PcIncrementedFirst ==
    [][\A a \in Actors :
          (Tick(a) /\ running[a] /\ Inst(a).op # "NoInst") =>
              /\ Inst(a).op = "Jump" =>
                    register'[a]["PC"] = ValueRef(Inst(a).address)
              /\ (/\ Inst(a).op # "Jump"
                  /\ ~(Inst(a).op = "JumpIf" /\ register[a]["ZF"] = ValueBool(TRUE))
                  /\ (Inst(a).op = "JumpIf" \/ "PC" \notin Written(Inst(a)))) =>
                    register'[a]["PC"] = ValueRef(register[a]["PC"].v + 1)]_vars

\* Jump(3) was fetched at PC = 1 and has left PC at 3.
C15_Witness ==
    \E a \in Actors :
        /\ hist[a] # <<>>
        /\ Last(hist[a]).inst = InstJump(3)
        /\ Last(hist[a]).pre.register["PC"] = ValueRef(1)
        /\ register[a]["PC"] = ValueRef(3)
        /\ running[a] /\ ~failed[a]

\* C16: in every state of an actor that is running and has not failed,
\* register PC holds a Ref and register ZF holds a Bool.
C16_PcRefZfBool ==
    \A a \in Actors :
        (running[a] /\ ~failed[a]) =>
            /\ register[a]["PC"].tag = "Ref"
            /\ register[a]["ZF"].tag = "Bool"

\* C17: a tick that executes Store(reg, address) or Load(address, reg) with
\* address inside the heap's capacity does not fail, and one outside it does;
\* a Load(address, reg2) that is the tick after a Store(reg, address) leaves
\* in reg2 the value stored.
C17_HeapStoreLoad ==
    /\ [][\A a \in Actors :
            (Tick(a) /\ Inst(a).op \in {"Load", "Store"}) =>
                (failed'[a] <=> Inst(a).address >= HeapCapacity)]_vars
    /\ [](\A a \in Actors :
            \A n \in 1..(Len(hist[a]) - 1) :
                (/\ hist[a][n].inst.op = "Store"
                 /\ hist[a][n + 1].inst.op = "Load"
                 /\ hist[a][n + 1].inst.address = hist[a][n].inst.address
                 /\ hist[a][n].inst.address < HeapCapacity) =>
                    /\ ~hist[a][n + 1].post.panic
                    /\ hist[a][n + 1].post.register[hist[a][n + 1].inst.reg] =
                          OperandOf(hist[a][n], hist[a][n].inst.reg))

\* C18: a tick that executes Push(reg) does not fail, appends reg's value to
\* the stack and leaves Ref(0) in reg; one that executes Pop(reg) on a stack
\* that is not empty does not fail, removes the last element and leaves it in
\* reg; Pop on an empty stack fails; a tick of any other instruction leaves
\* the stack as it was; and a Pop(r) that is the tick after a Push(r) leaves r
\* and the stack as they were before the Push.
C18_PushPop ==
    /\ [][\A a \in Actors :
            Tick(a) =>
                /\ Inst(a).op = "Push" =>
                      /\ ~failed'[a]
                      /\ stack'[a] = Append(stack[a], Operand(a, Inst(a).reg))
                      /\ register'[a][Inst(a).reg] = ValueRef(0)
                /\ (Inst(a).op = "Pop" /\ stack[a] # <<>>) =>
                      /\ ~failed'[a]
                      /\ stack'[a] = SubSeq(stack[a], 1, Len(stack[a]) - 1)
                      /\ register'[a][Inst(a).reg] = stack[a][Len(stack[a])]
                /\ (Inst(a).op = "Pop" /\ stack[a] = <<>>) =>
                      failed'[a] /\ stack'[a] = <<>>
                /\ Inst(a).op \notin {"Push", "Pop"} => stack'[a] = stack[a]]_vars
    /\ [](\A a \in Actors :
            \A n \in 1..(Len(hist[a]) - 1) :
                (/\ hist[a][n].inst.op = "Push"
                 /\ hist[a][n + 1].inst = InstPop(hist[a][n].inst.reg)) =>
                    /\ ~hist[a][n + 1].post.panic
                    /\ hist[a][n + 1].post.stack = hist[a][n].pre.stack
                    /\ hist[a][n + 1].post.register[hist[a][n].inst.reg] =
                          OperandOf(hist[a][n], hist[a][n].inst.reg))

\* Int(5) and then Int(2) were pushed, and two Pops have returned Int(2) and
\* then Int(5), the stack being empty again.
C18_Witness ==
    \E a \in Actors :
        /\ Len(hist[a]) >= 2
        /\ hist[a][Len(hist[a]) - 1].inst = InstPop("R2")
        /\ Last(hist[a]).inst = InstPop("R3")
        /\ Last(hist[a]).pre.stack = <<ValueInt(5)>>
        /\ register[a]["R2"] = ValueInt(2)
        /\ register[a]["R3"] = ValueInt(5)
        /\ register[a]["R0"] = ValueRef(0)
        /\ register[a]["R1"] = ValueRef(0)
        /\ stack[a] = <<>>
        /\ ~failed[a]

\* v0 op v1 for two Ints or two Floats: with a NaN every comparison is false.
Compares(op, v0, v1) ==
    LET nan == v0.tag = "Float" /\ (v0.v.k = "nan" \/ v1.v.k = "nan")
        less(x, y) == IF x.tag = "Int" THEN x.v < y.v ELSE FLt(x.v, y.v)
    IN /\ ~nan
       /\ CASE op = "Gt" -> less(v1, v0)
            [] op = "Gte" -> ~less(v0, v1)
            [] op = "Lt" -> less(v0, v1)
            [] op = "Lte" -> ~less(v1, v0)

\* C19: a tick that executes Gt, Gte, Lt or Lte on an (Int, Int) or
\* (Float, Float) pair does not fail, leaves the Bool of the comparison in ZF
\* and changes no other register but PC; on any other pair it fails and
\* leaves ZF as it was.
C19_OrderedComparisons ==
    [][\A a \in Actors :
          (Tick(a) /\ Inst(a).op \in OrderedOps) =>
              LET v0 == Operand(a, Inst(a).r0)
                  v1 == Operand(a, Inst(a).r1)
                  next == [register[a] EXCEPT !["PC"] = ValueRef(@.v + 1)]
              IN IF ArithSupported(v0.tag, v1.tag)
                 THEN /\ ~failed'[a]
                      /\ register'[a] =
                            [next EXCEPT !["ZF"] =
                                ValueBool(Compares(Inst(a).op, v0, v1))]
                 ELSE /\ failed'[a]
                      /\ register'[a] = next]_vars

\* Gte on Float(1.5) and Float(-2.0) has left Bool(true) in ZF.
C19_Witness ==
    \E a \in Actors :
        /\ hist[a] # <<>>
        /\ Last(hist[a]).inst = InstCmp("Gte", "R0", "R1")
        /\ register[a]["R0"] = ValueFloat(FFin(3, 2))
        /\ register[a]["R1"] = ValueFloat(FFin(-2, 1))
        /\ register[a]["ZF"] = ValueBool(TRUE)
        /\ register[a]["PC"] = ValueRef(3)
        /\ ~failed[a]

\* Call n of actor a was a get_tick that returned true.
Granted(a, n) == calls[a][n].op = "get_tick" /\ calls[a][n].result

\* C20: of two calls of get_tick on one actor that both return true, the
\* later one has a call of release between it and the earlier one; and a
\* get_tick that is the actor's first call, or comes right after a release,
\* returns true.
C20_OneTickInFlight ==
    \A a \in Actors :
        /\ \A i, j \in DOMAIN calls[a] :
              (i < j /\ Granted(a, i) /\ Granted(a, j)) =>
                  \E k \in (i + 1)..(j - 1) : calls[a][k].op = "release"
        /\ \A j \in DOMAIN calls[a] :
              (/\ calls[a][j].op = "get_tick"
               /\ (j = 1 \/ calls[a][j - 1].op = "release")) =>
                  calls[a][j].result

====
